---- MODULE Spec2Model ----
(***************************************************************************)
(* girya: a simple HTTP stress tester (src/main.go).                       *)
(*                                                                         *)
(* The main goroutine starts concurrencyLevel probes, then loops           *)
(* repetitions times: receive one measurement from the buffered result     *)
(* channel, record it, and start a replacement probe while fewer than      *)
(* repetitions probes have been started.  Every probe is a goroutine that  *)
(* fetches the URL and sends one measurement to the channel.  After the    *)
(* loop the benchmark is stopped and the statistics are printed.           *)
(***************************************************************************)
EXTENDS Integers, Sequences, FiniteSets, Bags, TLC

\* ------------------------------------------------------------------ bounds
\* Largest -c command line value explored.
MaxConcurrency == 2
\* Largest -r command line value explored.
MaxRepetitions == 3
\* Largest number of successful requests whose statistics are explored.
MaxLatencies == 4

\* ------------------------------------------------------- program constants
\* recordResult: lowest and highest status code counted as a success.
SuccessLow == 200
SuccessHigh == 299
\* retrieveUrl: status reported when http.Get fails.
TransportFailureStatus == 500
\* printStats: bytes per kilobyte.
BytesPerKilobyte == 1024

\* ------------------------------------------------------ environment inputs
\* Status codes a server may answer with (both edges of the 2xx range).
HttpStatusCodes == {199, 200, 299, 300}
\* Sum of len(header)+len(value) over the response headers.
HeaderSizes == {1}
\* len(body) when the body could be read.
BodySizes == {2}
\* t2.Sub(t1): wall clock time of one probe, in nanoseconds.
ProbeDurations == {1, 3}
\* Probe durations of the runs whose statistics are explored, in nanoseconds.
LatencySamples == {10, 20, 30, 40}
\* time.Now() at construction and the possible lengths of the whole run; the
\* two timestamps are kept in whole seconds.
ConstructionTimes == {1}
RunLengths == {1, 2}

VARIABLES
    concurrencyLevel,    \* main: -c flag
    repetitions,         \* main: -r flag
    pc,                  \* position of the main goroutine
    i,                   \* loop counter of the loop main is in
    requestsStarted,     \* benchmarkStats fields
    resultChannel,
    failedRequests,
    successfulRequests,
    transferredBytes,
    durations,
    startedAt,
    endedAt,
    fetching,            \* number of probe goroutines before their send
    sending,             \* bag of measurements of goroutines at their send
    recorded,            \* history: measurements given to recordResult
    report,              \* what printStats printed
    hung,                \* number of probe goroutines whose fetch never returns
    returned             \* per statistic method, the last two values it returned

vars == <<concurrencyLevel, repetitions, pc, i, requestsStarted, resultChannel,
          failedRequests, successfulRequests, transferredBytes, durations,
          startedAt, endedAt, fetching, sending, recorded, report, hung,
          returned>>

benchmarkFields == <<requestsStarted, failedRequests, successfulRequests,
                     transferredBytes, durations, startedAt, endedAt>>

\* ------------------------------------------------------------- measurement
measurement(size, status, d) ==
    [httpReplySize |-> size, httpStatusCode |-> status, duration |-> d]

\* retrieveUrl: the (status, size) pairs one fetch can return.
retrieveUrl ==
    {<<TransportFailureStatus, 0>>}
    \cup {<<s, h>> : s \in HttpStatusCodes, h \in HeaderSizes}
    \cup {<<s, h + b>> : s \in HttpStatusCodes, h \in HeaderSizes, b \in BodySizes}

\* --------------------------------------------------------------- statistics
RECURSIVE totalTime(_)
\* totalTime: the sum of the recorded durations.
totalTime(d) ==
    IF d = <<>> THEN 0 ELSE Head(d) + totalTime(Tail(d))

\* time.Duration(x) of a float64 x that is NaN: 0.0/0.0 with no duration
\* recorded.  Go leaves the value of this conversion to the implementation; on
\* one build it is one fixed value, named here without choosing it.
NaNDuration == "time.Duration(NaN)"

\* averageRequestDuration: floor(total / count); the operands are not negative.
averageRequestDuration(d) ==
    IF Len(d) = 0 THEN NaNDuration ELSE totalTime(d) \div Len(d)

RECURSIVE ScanMax(_, _)
ScanMax(max, d) ==
    IF d = <<>> THEN max
    ELSE ScanMax(IF max < Head(d) THEN Head(d) ELSE max, Tail(d))

\* slowestRequestDuration: linear scan starting from durations[0].
slowestRequestDuration(d) ==
    ScanMax(d[1], d)

RECURSIVE ScanMin(_, _)
ScanMin(min, d) ==
    IF d = <<>> THEN min
    ELSE ScanMin(IF min > Head(d) THEN Head(d) ELSE min, Tail(d))

\* fastestRequestDuration: linear scan starting from durations[0].
fastestRequestDuration(d) ==
    ScanMin(d[1], d)

\* durationSlice.Less
Less(a, b) ==
    a < b

RECURSIVE Insert(_, _)
\* v placed into the ascending sequence s, after the elements not above it.
Insert(v, s) ==
    IF s = <<>> THEN <<v>>
    ELSE IF Less(v, Head(s)) THEN <<v>> \o s
    ELSE <<Head(s)>> \o Insert(v, Tail(s))

RECURSIVE SortDurations(_)
\* sort.Sort(durations): the ascending arrangement of d.
SortDurations(d) ==
    IF d = <<>> THEN <<>> ELSE Insert(Head(d), SortDurations(Tail(d)))

\* Variant: the mean of the two middle elements for an even length.
medianRequestDuration_Averaged(d) ==
    LET sorted == SortDurations(d)
        mid == Len(d) \div 2
    IN  IF Len(d) % 2 = 0
        THEN (sorted[mid] + sorted[mid + 1]) \div 2
        ELSE sorted[mid + 1]

\* medianRequestDuration: element int(length/2) of a sorted copy (Go indexes
\* from 0, sequences from 1).
medianRequestDuration(d) ==
    SortDurations(d)[(Len(d) \div 2) + 1]

RECURSIVE SumDeltaSquared(_, _)
SumDeltaSquared(mean, d) ==
    IF d = <<>> THEN 0
    ELSE (mean - Head(d)) * (mean - Head(d)) + SumDeltaSquared(mean, Tail(d))

\* standardDeviation: floor(sqrt(sumDeltaSquared / length)) around the floored
\* mean, i.e. the largest k with k*k*length <= sumDeltaSquared.
standardDeviation(d) ==
    IF Len(d) = 0 THEN NaNDuration
    ELSE LET sum == SumDeltaSquared(averageRequestDuration(d), d)
         IN  CHOOSE k \in 0..sum :
                 /\ k * k * Len(d) <= sum
                 /\ (k + 1) * (k + 1) * Len(d) > sum

\* An index expression d[k] of Go (0-based) panics when k is out of range.
IndexOutOfRange(d, k) ==
    k < 0 \/ k >= Len(d)

\* ------------------------------------------------------------------- state
NoReport == [printed |-> FALSE]

\* The methods of benchmarkStats that compute a statistic of durations.
Statistics ==
    {"average", "slowest", "fastest", "median", "deviation"}

\* No statistic method has returned yet.
NoneReturned == [s \in Statistics |-> <<>>]

\* NewBenchmarkStats, after flag parsing chose the two levels.
Init ==
    /\ concurrencyLevel \in 0..MaxConcurrency
    /\ repetitions \in 0..MaxRepetitions
    /\ pc = "start"
    /\ i = 0
    /\ requestsStarted = 0
    /\ resultChannel = <<>>
    /\ failedRequests = 0
    /\ successfulRequests = 0
    /\ transferredBytes = 0
    /\ durations = <<>>
    /\ startedAt \in ConstructionTimes
    /\ endedAt = 0
    /\ fetching = 0
    /\ sending = EmptyBag
    /\ recorded = <<>>
    /\ report = NoReport
    /\ hung = 0
    /\ returned = NoneReturned

\* Variant: an unbuffered channel, make(chan *measurement).
ChannelCapacity_Unbuffered ==
    concurrencyLevel - concurrencyLevel

\* cap(bm.resultChannel)
ChannelCapacity == concurrencyLevel

\* requestCount
requestCount ==
    failedRequests + successfulRequests

\* Probes started whose measurement the collector has not received yet.
InFlight ==
    fetching + hung + BagCardinality(sending) + Len(resultChannel)

\* The process is alive until main returns or panics.
Running ==
    pc \notin {"done", "panic"}

\* ----------------------------------------------------------- benchmarkStats
\* measureUrl: count the request and start its goroutine.
measureUrl ==
    /\ requestsStarted' = requestsStarted + 1
    /\ fetching' = fetching + 1

\* Variant: the lower edge of the success range taken as exclusive.
IsSuccess_ExclusiveLow(status) ==
    status > SuccessLow /\ status <= SuccessHigh

\* recordResult's test of the status code.
IsSuccess(status) ==
    status >= SuccessLow /\ status <= SuccessHigh

\* Variant: the duration appended outside the status test.
recordResult_AppendAlways(m) ==
    /\ IF IsSuccess(m.httpStatusCode)
       THEN successfulRequests' = successfulRequests + 1 /\ UNCHANGED failedRequests
       ELSE failedRequests' = failedRequests + 1 /\ UNCHANGED successfulRequests
    /\ durations' = Append(durations, m.duration)
    /\ transferredBytes' = transferredBytes + m.httpReplySize

\* Variant: the reply size added inside the success branch only.
recordResult_BytesOnSuccess(m) ==
    IF IsSuccess(m.httpStatusCode)
    THEN /\ successfulRequests' = successfulRequests + 1
         /\ durations' = Append(durations, m.duration)
         /\ transferredBytes' = transferredBytes + m.httpReplySize
         /\ UNCHANGED failedRequests
    ELSE /\ failedRequests' = failedRequests + 1
         /\ UNCHANGED <<successfulRequests, durations, transferredBytes>>

\* recordResult
recordResult(m) ==
    /\ IF IsSuccess(m.httpStatusCode)
       THEN /\ successfulRequests' = successfulRequests + 1
            /\ durations' = Append(durations, m.duration)
            /\ UNCHANGED failedRequests
       ELSE /\ failedRequests' = failedRequests + 1
            /\ UNCHANGED <<successfulRequests, durations>>
    /\ transferredBytes' = transferredBytes + m.httpReplySize

\* Variant: a receive that does not wait (select with a default case).
receiveResult_NonBlocking ==
    IF resultChannel # <<>>
    THEN /\ resultChannel' = Tail(resultChannel)
         /\ recordResult(Head(resultChannel))
         /\ recorded' = Append(recorded, Head(resultChannel))
    ELSE UNCHANGED <<resultChannel, failedRequests, successfulRequests,
                     durations, transferredBytes, recorded>>

\* receiveResult: take the oldest measurement of the channel and record it.
receiveResult ==
    /\ resultChannel # <<>>
    /\ resultChannel' = Tail(resultChannel)
    /\ recordResult(Head(resultChannel))
    /\ recorded' = Append(recorded, Head(resultChannel))

\* stop
stop ==
    \E len \in RunLengths : endedAt' = startedAt + len

\* elapsedTime
elapsedTime ==
    endedAt - startedAt

\* printStats, its first five lines: they are on stdout before the first
\* statistic of durations is computed.
printedBeforeLatencies ==
    [printed |-> TRUE,
     successful |-> successfulRequests,
     failed |-> failedRequests,
     kilobytes |-> transferredBytes \div BytesPerKilobyte,
     kilobytesPerSecond |-> transferredBytes \div (BytesPerKilobyte * elapsedTime),
     elapsed |-> elapsedTime]

\* printStats: all ten printed lines, when no index expression panics.
printStats ==
    [printed |-> TRUE,
     successful |-> successfulRequests,
     failed |-> failedRequests,
     kilobytes |-> transferredBytes \div BytesPerKilobyte,
     kilobytesPerSecond |-> transferredBytes \div (BytesPerKilobyte * elapsedTime),
     elapsed |-> elapsedTime,
     slowest |-> slowestRequestDuration(durations),
     median |-> medianRequestDuration(durations),
     fastest |-> fastestRequestDuration(durations),
     average |-> averageRequestDuration(durations),
     deviation |-> standardDeviation(durations)]

\* -------------------------------------------------------------------- main
\* Variant: the first loop running one round too many.
StartLoopCond_Inclusive ==
    i <= concurrencyLevel

\* for i := 0; i < concurrencyLevel; i += 1
StartLoopCond ==
    i < concurrencyLevel

\* Variant: the second loop running one round too few.
CollectLoopCond_OneShort ==
    i + 1 < repetitions

\* Variant: the second loop running until every started request is drained.
CollectLoopCond_AllStarted ==
    i < requestsStarted

\* for i := 0; i < repetitions; i += 1
CollectLoopCond ==
    i < repetitions

\* Variant: the last replacement left out.
ReplaceCond_OneShort ==
    requestsStarted + 1 < repetitions

\* Variant: a replacement started only after a successful measurement.
ReplaceCond_SuccessOnly ==
    /\ requestsStarted < repetitions
    /\ IsSuccess(recorded[Len(recorded)].httpStatusCode)

\* if benchmark.requestsStarted < repetitions
ReplaceCond ==
    requestsStarted < repetitions

\* One round of the first loop: start a request.
StartRequest ==
    /\ pc = "start"
    /\ StartLoopCond
    /\ measureUrl
    /\ i' = i + 1
    /\ UNCHANGED <<concurrencyLevel, repetitions, pc, resultChannel,
                   failedRequests, successfulRequests, transferredBytes,
                   durations, startedAt, endedAt, sending, recorded, report>>
    /\ UNCHANGED <<hung, returned>>

\* The first loop ends; the second loop begins with i = 0.
StartDone ==
    /\ pc = "start"
    /\ ~StartLoopCond
    /\ pc' = "collect"
    /\ i' = 0
    /\ UNCHANGED <<concurrencyLevel, repetitions, requestsStarted,
                   resultChannel, failedRequests, successfulRequests,
                   transferredBytes, durations, startedAt, endedAt, fetching,
                   sending, recorded, report>>
    /\ UNCHANGED <<hung, returned>>

\* Second loop, first statement: wait for a result and process it.
Collect ==
    /\ pc = "collect"
    /\ CollectLoopCond
    /\ receiveResult
    /\ pc' = "replace"
    /\ UNCHANGED <<concurrencyLevel, repetitions, i, requestsStarted,
                   startedAt, endedAt, fetching, sending, report>>
    /\ UNCHANGED <<hung, returned>>

\* Second loop, second statement: start a new worker if required.
Replace ==
    /\ pc = "replace"
    /\ IF ReplaceCond
       THEN measureUrl
       ELSE UNCHANGED <<requestsStarted, fetching>>
    /\ i' = i + 1
    /\ pc' = "collect"
    /\ UNCHANGED <<concurrencyLevel, repetitions, resultChannel,
                   failedRequests, successfulRequests, transferredBytes,
                   durations, startedAt, endedAt, sending, recorded, report>>
    /\ UNCHANGED <<hung, returned>>

\* The second loop ends: benchmark.stop().
Stop ==
    /\ pc = "collect"
    /\ ~CollectLoopCond
    /\ stop
    /\ pc' = "print"
    /\ UNCHANGED <<concurrencyLevel, repetitions, i, requestsStarted,
                   resultChannel, failedRequests, successfulRequests,
                   transferredBytes, durations, startedAt, fetching, sending,
                   recorded, report>>
    /\ UNCHANGED <<hung, returned>>

\* benchmark.printStats(), then main returns; durations[0] of an empty slice
\* panics in slowestRequestDuration and ends the process with the first five
\* lines printed and no latency line.
PrintStats ==
    /\ pc = "print"
    /\ IF IndexOutOfRange(durations, 0)
       THEN pc' = "panic" /\ report' = printedBeforeLatencies
       ELSE pc' = "done" /\ report' = printStats
    /\ UNCHANGED <<concurrencyLevel, repetitions, i, requestsStarted,
                   resultChannel, failedRequests, successfulRequests,
                   transferredBytes, durations, startedAt, endedAt, fetching,
                   sending, recorded>>
    /\ UNCHANGED <<hung, returned>>

\* ------------------------------------------------------- probe goroutines
\* A goroutine finishes retrieveUrl and has its measurement ready to send.
Fetch ==
    /\ Running
    /\ fetching > 0
    /\ fetching' = fetching - 1
    /\ \E r \in retrieveUrl, d \in ProbeDurations :
           sending' = sending (+) SetToBag({measurement(r[2], r[1], d)})
    /\ UNCHANGED <<concurrencyLevel, repetitions, pc, i, requestsStarted,
                   resultChannel, failedRequests, successfulRequests,
                   transferredBytes, durations, startedAt, endedAt, recorded,
                   report>>
    /\ UNCHANGED <<hung, returned>>

\* Variant: the goroutine records its measurement itself instead of sending.
Send_RecordsItself ==
    /\ Running
    /\ \E m \in BagToSet(sending) :
           /\ recordResult(m)
           /\ recorded' = Append(recorded, m)
           /\ sending' = sending (-) SetToBag({m})
    /\ UNCHANGED <<concurrencyLevel, repetitions, pc, i, requestsStarted,
                   resultChannel, startedAt, endedAt, fetching, report, hung,
                   returned>>

\* bm.resultChannel <- m: possible while the buffer has room.
Send ==
    /\ Running
    /\ Len(resultChannel) < ChannelCapacity
    /\ \E m \in BagToSet(sending) :
           /\ resultChannel' = Append(resultChannel, m)
           /\ sending' = sending (-) SetToBag({m})
    /\ UNCHANGED <<concurrencyLevel, repetitions, pc, i, requestsStarted,
                   failedRequests, successfulRequests, transferredBytes,
                   durations, startedAt, endedAt, fetching, recorded, report>>
    /\ UNCHANGED <<hung, returned>>

\* http.Get of a goroutine blocks for good: there is no timeout and nothing
\* cancels it, so this goroutine never reaches its send.
Hang ==
    /\ Running
    /\ fetching > 0
    /\ fetching' = fetching - 1
    /\ hung' = hung + 1
    /\ UNCHANGED <<concurrencyLevel, repetitions, pc, i, requestsStarted,
                   resultChannel, failedRequests, successfulRequests,
                   transferredBytes, durations, startedAt, endedAt, sending,
                   recorded, report, returned>>

Main ==
    StartRequest \/ StartDone \/ Collect \/ Replace \/ Stop \/ PrintStats

Next ==
    \/ StartRequest
    \/ StartDone
    \/ Collect
    \/ Replace
    \/ Stop
    \/ PrintStats
    \/ Fetch
    \/ Send

Spec == Init /\ [][Next]_vars

\* The program with fetches that may never return.
HangNext ==
    \/ Next
    \/ Hang

HangSpec == Init /\ [][HangNext]_vars

\* The scheduler runs every goroutine that can take a step, and every fetch
\* returns.
FairSpec == Spec /\ WF_vars(Main) /\ WF_vars(Fetch) /\ WF_vars(Send)

\* ------------------------------------------- the statistic methods, called
\* All sequences over S of length at most n.
SeqsUpTo(S, n) ==
    UNION {[1..k -> S] : k \in 0..n}

\* The value v returned by statistic s: kept with the one returned before.
Returns(s, v) ==
    returned' = [returned EXCEPT ![s] =
                    IF @ = <<>> THEN <<v>> ELSE <<@[Len(@)], v>>]

\* Variant: the receiver's slice sorted in place.
medianRequestDurationCall_InPlace ==
    /\ durations' = SortDurations(durations)
    /\ IF IndexOutOfRange(durations, Len(durations) \div 2)
       THEN pc' = "panic" /\ UNCHANGED returned
       ELSE Returns("median", medianRequestDuration(durations)) /\ UNCHANGED pc

\* medianRequestDuration on the receiver: a copy is sorted, bm.durations is
\* only read; index length/2 of an empty copy panics.
medianRequestDurationCall ==
    /\ durations' = durations
    /\ IF IndexOutOfRange(durations, Len(durations) \div 2)
       THEN pc' = "panic" /\ UNCHANGED returned
       ELSE Returns("median", medianRequestDuration(durations)) /\ UNCHANGED pc

\* A finished, stopped benchmark whose requests all succeeded, with the
\* durations d in arrival order; main is about to report.
FinishedRun(d) ==
    /\ concurrencyLevel = (IF d = <<>> THEN 0 ELSE 1)
    /\ repetitions = Len(d)
    /\ pc = "print"
    /\ i = Len(d)
    /\ requestsStarted = Len(d)
    /\ resultChannel = <<>>
    /\ failedRequests = 0
    /\ successfulRequests = Len(d)
    /\ transferredBytes = 3 * Len(d)
    /\ durations = d
    /\ startedAt \in ConstructionTimes
    /\ endedAt = startedAt + 1
    /\ fetching = 0
    /\ sending = EmptyBag
    /\ recorded = [k \in 1..Len(d) |-> measurement(3, SuccessLow, d[k])]
    /\ report = NoReport
    /\ hung = 0
    /\ returned = NoneReturned

StatsInit ==
    \E d \in SeqsUpTo(LatencySamples, MaxLatencies) : FinishedRun(d)

\* What no statistic method touches besides bm.durations, pc and returned.
statsFrame ==
    <<concurrencyLevel, repetitions, i, requestsStarted, resultChannel,
      failedRequests, successfulRequests, transferredBytes, startedAt,
      endedAt, fetching, sending, recorded, report, hung>>

CallAverage ==
    /\ pc = "print"
    /\ Returns("average", averageRequestDuration(durations))
    /\ UNCHANGED <<pc, durations, statsFrame>>

CallSlowest ==
    /\ pc = "print"
    /\ IF IndexOutOfRange(durations, 0)
       THEN pc' = "panic" /\ UNCHANGED returned
       ELSE Returns("slowest", slowestRequestDuration(durations)) /\ UNCHANGED pc
    /\ UNCHANGED <<durations, statsFrame>>

CallFastest ==
    /\ pc = "print"
    /\ IF IndexOutOfRange(durations, 0)
       THEN pc' = "panic" /\ UNCHANGED returned
       ELSE Returns("fastest", fastestRequestDuration(durations)) /\ UNCHANGED pc
    /\ UNCHANGED <<durations, statsFrame>>

CallMedian ==
    /\ pc = "print"
    /\ medianRequestDurationCall
    /\ UNCHANGED statsFrame

CallStandardDeviation ==
    /\ pc = "print"
    /\ Returns("deviation", standardDeviation(durations))
    /\ UNCHANGED <<pc, durations, statsFrame>>

StatsNext ==
    \/ CallAverage
    \/ CallSlowest
    \/ CallFastest
    \/ CallMedian
    \/ CallStandardDeviation

\* The statistic methods called in any order, any number of times, on a
\* finished benchmark.
StatsSpec == StatsInit /\ [][StatsNext]_vars

TypeOK ==
    /\ pc \in {"start", "collect", "replace", "print", "done", "panic"}
    /\ requestsStarted \in Nat
    /\ fetching \in Nat
    /\ Len(resultChannel) <= ChannelCapacity

\* ================================================================== claims
Min(a, b) ==
    IF a < b THEN a ELSE b

\* The run is completed: stop() has set endedAt.
Stopped ==
    endedAt # 0

RECURSIVE SuccessDurations(_)
\* The durations of the measurements of ms whose status is in [200,299].
SuccessDurations(ms) ==
    IF ms = <<>> THEN <<>>
    ELSE IF Head(ms).httpStatusCode \in 200..299
         THEN <<Head(ms).duration>> \o SuccessDurations(Tail(ms))
         ELSE SuccessDurations(Tail(ms))

RECURSIVE SumReplySizes(_)
\* The sum of httpReplySize over all measurements of ms.
SumReplySizes(ms) ==
    IF ms = <<>> THEN 0
    ELSE Head(ms).httpReplySize + SumReplySizes(Tail(ms))

\* C1: with concurrency >= 1, requestsStarted never exceeds repetitions.
\* (Fails: the first loop starts concurrencyLevel requests without looking at
\* repetitions, so -c 2 -r 1 starts two.)
C1_RequestsNeverExceedRepetitions ==
    concurrencyLevel >= 1 => requestsStarted <= repetitions

\* C2: when the start phase is over and no measurement has been consumed yet,
\* exactly min(concurrency, repetitions) requests have been started.
\* (Fails: concurrencyLevel requests have been started.)
C2_StartIssuesMin ==
    (pc = "collect" /\ i = 0)
        => requestsStarted = Min(concurrencyLevel, repetitions)

\* C3: the number of probes started and not yet drained by the collector,
\* counted from the counters and counted from the goroutines and the channel,
\* is at most the concurrency level in every state.
C3_InFlightAtMostConcurrency ==
    /\ InFlight <= concurrencyLevel
    /\ requestsStarted - Len(recorded) <= concurrencyLevel

\* C3 witness: a replacement probe has been started after a drain and the
\* concurrency level is used up.
C3_Witness ==
    /\ concurrencyLevel = 2
    /\ Len(recorded) >= 1
    /\ requestsStarted = 3
    /\ InFlight = concurrencyLevel

\* C4 as claimed, for the second loop: whenever requestsStarted < repetitions
\* the number in flight equals the concurrency level, also between
\* receiveResult and the replacement measureUrl.
C4_AlwaysExactlyConcurrency ==
    (pc \in {"collect", "replace"} /\ requestsStarted < repetitions)
        => InFlight = concurrencyLevel

\* C4 amended: while requestsStarted < repetitions, the number in flight
\* equals the concurrency level whenever the collector is at the head of its
\* loop, and is one less between receiveResult and the replacement measureUrl.
C4_ExactlyConcurrencyAtLoopHead ==
    /\ (pc = "collect" /\ requestsStarted < repetitions)
           => InFlight = concurrencyLevel
    /\ (pc = "replace" /\ requestsStarted < repetitions)
           => InFlight = concurrencyLevel - 1

\* C4 witness: at the loop head after a replacement, with budget left.
C4_Witness ==
    /\ pc = "collect"
    /\ Len(recorded) >= 1
    /\ requestsStarted < repetitions
    /\ requestsStarted > concurrencyLevel
    /\ InFlight = concurrencyLevel

\* C5: successfulRequests + failedRequests is the number of measurements
\* recorded so far, and is repetitions once stop() has been called.
C5_CountsAddUp ==
    /\ requestCount = Len(recorded)
    /\ Stopped => requestCount = repetitions

\* C5 witness: a completed run of three requests with both kinds of result.
C5_Witness ==
    /\ Stopped
    /\ repetitions = 3
    /\ successfulRequests >= 1
    /\ failedRequests >= 1

\* C6: durations has one entry per successful request, and holds, in arrival
\* order, exactly the durations of the recorded measurements whose status is
\* in [200,299].
C6_DurationsOfSuccesses ==
    /\ Len(durations) = successfulRequests
    /\ durations = SuccessDurations(recorded)

\* C6 witness: a failure was recorded between two successes.
C6_Witness ==
    /\ Len(recorded) = 3
    /\ recorded[1].httpStatusCode = 200
    /\ recorded[2].httpStatusCode = 300
    /\ recorded[3].httpStatusCode = 299
    /\ Len(durations) = 2

\* C7: transferredBytes is the sum of the reply sizes of all recorded
\* measurements, failed ones included.
C7_BytesOfAllMeasurements ==
    transferredBytes = SumReplySizes(recorded)

\* C7 witness: a failed measurement with a non-empty reply has been counted.
C7_Witness ==
    /\ Len(recorded) = 2
    /\ recorded[1].httpStatusCode = 200
    /\ recorded[2].httpStatusCode = 300
    /\ recorded[2].httpReplySize = 3
    /\ transferredBytes = recorded[1].httpReplySize + 3

\* C8: every recordResult call adds one to exactly one of the two counters:
\* to successfulRequests iff the status is in [200,299], else to
\* failedRequests, and then durations and successfulRequests stay as they are.
C8_ExactlyOneCounter ==
    [][recorded' # recorded =>
          LET m == recorded'[Len(recorded')]
          IN  IF 200 <= m.httpStatusCode /\ m.httpStatusCode <= 299
              THEN /\ successfulRequests' = successfulRequests + 1
                   /\ failedRequests' = failedRequests
              ELSE /\ failedRequests' = failedRequests + 1
                   /\ successfulRequests' = successfulRequests
                   /\ durations' = durations]_vars

\* C8 witness: both edges of the success range, a redirect and the transport
\* failure status have been recorded.
C8_Witness ==
    /\ Len(recorded) = 3
    /\ recorded[1].httpStatusCode = 200
    /\ recorded[2].httpStatusCode = 500
    /\ recorded[3].httpStatusCode = 199
    /\ successfulRequests = 1
    /\ failedRequests = 2

\* C9: with concurrency >= 1 the run eventually reaches stop(), it is stopped
\* only with repetitions measurements drained, and once requestsStarted equals
\* repetitions no further probe is started.
\* (Fails in its last part: with -c 2 -r 1 the first loop starts a second
\* probe when requestsStarted is already 1.)
C9_EndsAndStartsNoMore ==
    /\ (concurrencyLevel >= 1) => <>Stopped
    /\ [](Stopped <=> (pc \in {"print", "done", "panic"} /\ Len(recorded) = repetitions))
    /\ [][requestsStarted = repetitions => requestsStarted' = requestsStarted]_vars

\* What remains of C9 in the code: the run ends, with repetitions drained.
C9_Termination ==
    /\ (concurrencyLevel >= 1) => <>Stopped
    /\ [](Stopped => Len(recorded) = repetitions)

\* C10: a completed run whose probes all failed (no successful measurement)
\* gets its report without an out-of-range access.
\* (Fails: slowestRequestDuration reads durations[0] of the empty slice.)
C10_EmptyLatenciesNoCrash ==
    (Stopped /\ repetitions >= 1 /\ failedRequests = repetitions)
        => pc # "panic"

\* C11: in the second loop a probe is started only by the step that follows
\* the receive of that round (the round's measurement is already recorded),
\* and that step starts exactly one probe when requestsStarted < repetitions
\* and none otherwise, whatever the status of the measurement just consumed.
C11_OneReplacementPerConsumed ==
    /\ [][(pc # "start" /\ requestsStarted' # requestsStarted)
             => /\ pc = "replace"
                /\ Len(recorded) = i + 1
                /\ recorded' = recorded]_vars
    /\ [][(pc = "replace" /\ pc' # pc)
             => requestsStarted' =
                    IF requestsStarted < repetitions
                    THEN requestsStarted + 1
                    ELSE requestsStarted]_vars

\* C11 witness: with one slot, a replacement followed a failed measurement
\* and another followed a successful one.
C11_Witness ==
    /\ concurrencyLevel = 1
    /\ pc = "collect"
    /\ i = 2
    /\ recorded[1].httpStatusCode = 500
    /\ recorded[2].httpStatusCode = 200
    /\ requestsStarted = 3

\* The number of entries of d that satisfy the test P.
CountOf(d, P(_)) ==
    Cardinality({k \in 1..Len(d) : P(d[k])})

\* x is the element that stands at 0-based index floor(Len(d)/2) when d is
\* put in ascending order: at most floor(n/2) entries are below x and more
\* than floor(n/2) are not above it.
IsUpperMedian(x, d) ==
    /\ \E k \in 1..Len(d) : d[k] = x
    /\ CountOf(d, LAMBDA v : v < x) <= Len(d) \div 2
    /\ CountOf(d, LAMBDA v : v <= x) > Len(d) \div 2

\* C12: for every non-empty durations, medianRequestDuration is the element
\* at index floor(length/2) of the ascending order (the upper middle element
\* for an even length), and that is what a call returns.
C12_MedianIsUpperMiddle ==
    /\ durations # <<>> => IsUpperMedian(medianRequestDuration(durations), durations)
    /\ \A k \in 1..Len(returned["median"]) :
           IsUpperMedian(returned["median"][k], durations)

\* C12 witness: Scenario B in another arrival order; the call returned 30.
C12_Witness ==
    /\ durations = <<40, 10, 30, 20>>
    /\ returned["median"] = <<30>>

\* C13: every call of a statistic method leaves all fields of the benchmark
\* (durations and its arrival order included) and the channel as they were,
\* and a method called again returns what it returned before.
C13_ReadOnlyAndIdempotent ==
    /\ [][UNCHANGED <<benchmarkFields, resultChannel>>]_vars
    /\ [](\A s \in Statistics :
              Len(returned[s]) = 2 => returned[s][1] = returned[s][2])

\* C13 witness: on durations that are not in ascending order, median and
\* average have each been called twice.
C13_Witness ==
    /\ durations = <<40, 10, 30, 20>>
    /\ returned["median"] = <<30, 30>>
    /\ returned["average"] = <<25, 25>>
    /\ returned["slowest"] = <<40, 40>>

\* C14: with concurrency >= 1 and repetitions >= 1, once a started probe
\* hangs no step stops the run: stop() is never executed after it.
\* (Fails: with -c 2 -r 1 the first loop starts two probes, and the one
\* measurement of the other probe is enough for stop().)
C14_HungProbeStallsRun ==
    [][(concurrencyLevel >= 1 /\ repetitions >= 1 /\ hung >= 1)
          => endedAt' = endedAt]_vars

\* What remains of C14 in the code: when no more probes are started than
\* repetitions, a hung probe keeps the run from being stopped.
C14_StallsWithinBudget ==
    (concurrencyLevel >= 1 /\ repetitions >= concurrencyLevel /\ hung >= 1)
        => ~Stopped

\* C15: a step of a probe goroutine (one leaves its fetch, or one sends)
\* leaves every field of the benchmark unchanged and at most appends its own
\* measurement to the channel; and the counters, written by main alone, agree
\* with what was started and recorded: no update is lost.
C15_SingleWriter ==
    /\ [][(fetching' < fetching \/ sending' # sending)
             => /\ UNCHANGED benchmarkFields
                /\ \/ resultChannel' = resultChannel
                   \/ \E m \in BagToSet(sending) :
                          resultChannel' = Append(resultChannel, m)]_vars
    /\ [](/\ requestsStarted = InFlight + Len(recorded)
          /\ successfulRequests = Len(SuccessDurations(recorded))
          /\ failedRequests = Len(recorded) - Len(SuccessDurations(recorded))
          /\ transferredBytes = SumReplySizes(recorded))

\* C15 witness: main has recorded a measurement and started the replacement;
\* one goroutine is at its send and another is fetching.
C15_Witness ==
    /\ pc = "collect"
    /\ Len(recorded) = 1
    /\ requestsStarted = 3
    /\ BagCardinality(sending) = 1
    /\ fetching = 1

\* C16: endedAt is written by one step only, taken with successfulRequests +
\* failedRequests = repetitions, and from then on no counter, transferredBytes,
\* durations or endedAt changes, probes still running or queued or not.
C16_FinalizedOnce ==
    /\ [][endedAt' # endedAt => (endedAt = 0 /\ requestCount = repetitions)]_vars
    /\ [][Stopped => UNCHANGED <<requestsStarted, successfulRequests,
                                 failedRequests, transferredBytes, durations,
                                 endedAt>>]_vars

\* C16 witness: the run is stopped and reported while a measurement is still
\* queued, never to be drained.
C16_Witness ==
    /\ pc = "done"
    /\ Stopped
    /\ repetitions = 1
    /\ Len(resultChannel) = 1

\* C17: the channel never holds more measurements than its capacity, the
\* concurrency level, and whenever a goroutine is at its send the buffer has
\* room, so the send does not block.
C17_SendNeverBlocks ==
    /\ Len(resultChannel) <= ChannelCapacity
    /\ sending # EmptyBag => Len(resultChannel) < ChannelCapacity

\* C17 witness: the collector has finished with one measurement queued, and a
\* goroutine is at its send.
C17_Witness ==
    /\ concurrencyLevel = 2
    /\ Stopped
    /\ Len(resultChannel) = 1
    /\ BagCardinality(sending) = 1

\* C18: with concurrency 0 and repetitions >= 1 no probe is ever started,
\* nothing is recorded, the run is never stopped, and at its first receive
\* main waits with no step left to any goroutine.
C18_NoWorkersNoProgress ==
    (concurrencyLevel = 0 /\ repetitions >= 1)
        => /\ requestsStarted = 0
           /\ InFlight = 0
           /\ recorded = <<>>
           /\ ~Stopped
           /\ pc \in {"start", "collect"}
           /\ pc = "collect" => (i = 0 /\ ~ENABLED Next)

\* C18 witness: main at its first receive with no probe started.
C18_Witness ==
    /\ concurrencyLevel = 0
    /\ repetitions = 2
    /\ pc = "collect"
    /\ i = 0
    /\ resultChannel = <<>>

====
